---- MODULE Spec2Model ----
(***************************************************************************)
(* ClaudeVersionSelector (src/src/components/ClaudeVersionSelector.tsx):   *)
(* the component state, its handlers and its two effects, as a state       *)
(* machine.  Every await of the component is a suspension point: the call  *)
(* is kept in flight and its continuation is a separate action.            *)
(*                                                                         *)
(* Strings that the code trims or tests for blankness (paths, the manual   *)
(* path input, the file-picker result) are sequences of one-character      *)
(* strings.  The empty sequence stands for every falsy path value          *)
(* (null, undefined, ""): the code only ever tests such values for         *)
(* truthiness.                                                             *)
(*                                                                         *)
(* The release and updater workflows (src/.github/workflows/release.yml,   *)
(* updater.yml) are a second state machine over variables of their own:    *)
(* the jobs' results, the GitHub release and the generated latest.json.    *)
(* Names that the workflows build or search (asset names, the updater's    *)
(* search strings) are sequences of their "-"-separated words, the file    *)
(* extension being the last word.                                          *)
(***************************************************************************)
EXTENDS Naturals, Sequences, FiniteSets, Bags

VARIABLES
    installations,            \* useState<ClaudeInstallation[]>([])
    loading,                  \* useState(true)
    error,                    \* useState<string | null>(null)
    selectedInstallation,     \* useState<ClaudeInstallation | null>(null)
    manualPath,               \* useState("")
    isValidatingManualPath,   \* useState(false)
    selectedPath,             \* the selectedPath prop of the latest render
    loads,                    \* loadInstallations calls awaiting the backend, oldest first: the selectedPath each captured
    validations,              \* addManualInstallation calls awaiting the backend: bag of their path argument
    dialogOpen,               \* a handleBrowseFile call is awaiting open()
    onSelectArg,              \* what the latest step passed to onSelect (Null: it made no call)
    binaryPathSet,            \* the Claude binary path the latest step had stored (NoPath: it stored none)
    enumerated,               \* the validated candidates of the backend's enumerators, in discovery order
    notified,                 \* the installation the caller last received through onSelect (kept by CallerSpec)
    lastOp,                   \* the handler or continuation that ran in the latest step
    createRelease,            \* result of the create-release job
    buildAndUpload,           \* result of the build-and-upload job of each matrix platform
    release,                  \* the GitHub release of the run: its id, draft flag, deletion and assets
    finalizeRelease,          \* the finalize-release job: the step it is at and whether a step has failed
    latest                    \* the latest.json of the updater workflow

vars == <<installations, loading, error, selectedInstallation, manualPath,
          isValidatingManualPath, selectedPath, loads, validations, dialogOpen,
          onSelectArg, binaryPathSet, enumerated, notified, lastOp,
          createRelease, buildAndUpload, release, finalizeRelease, latest>>

\* The variables of the component and of its backend.
component == <<installations, loading, error, selectedInstallation, manualPath,
               isValidatingManualPath, selectedPath, loads, validations,
               dialogOpen, onSelectArg, binaryPathSet, enumerated, notified,
               lastOp>>

\* The variables of the workflows.
workflows == <<createRelease, buildAndUpload, release, finalizeRelease, latest>>

----------------------------------------------------------------------------
(* Bounds of the model: the calls of each kind that may await the backend  *)
(* at once, and the candidates of a discovery pass.                        *)

MaxLoads == 2
MaxValidations == 1

\* The candidates one discovery pass may enumerate.
MaxCandidates == 3

\* The validations that may await the backend at once in OverlapSpec.
MaxOverlap == 2

----------------------------------------------------------------------------
(* Values *)

NoPath == <<>>

Null == [path |-> NoPath, version |-> "null", source |-> "null"]

NoError == "null"

Whitespace == {" "}

UsrBin == <<"u">>
Brew == <<"h">>
Npm == <<"n">>
Link == <<"l">>
Missing == <<"x">>

WhichInstallation == [path |-> UsrBin, version |-> "1.2.0", source |-> "which"]
BrewInstallation == [path |-> Brew, version |-> "1.2.0", source |-> "homebrew"]
NpmInstallation == [path |-> Npm, version |-> "1.2.0", source |-> "npm-global"]

\* What api.listClaudeInstallations() may resolve to: ranked, paths unique.
DiscoveryResults ==
    { <<>>, <<WhichInstallation>>,
      <<WhichInstallation, BrewInstallation>>,
      <<BrewInstallation, NpmInstallation>> }

\* What a rejected backend call or dialog may throw.
Thrown == { [isError |-> TRUE, message |-> "NotExecutable"],
            [isError |-> FALSE, message |-> ""] }

\* The files api.setClaudeBinaryPath accepts.
Executable == {UsrBin, Brew, Link}

\* Values the caller may pass as selectedPath.
PropPaths == {NoPath, UsrBin}

\* Texts the user may type into the manual path input.
TypedInputs == { <<>>, <<" ", "u", " ">> }

\* Strings the file-picker may return (NoPath: the dialog was cancelled).
DialogResults == { NoPath, <<" ">>, <<" ", "u", " ">>, <<"l">>, <<"x">> }

----------------------------------------------------------------------------
(* Values of the workflows *)

\* strategy.matrix.platform of build-and-upload.
Platforms ==
    { [name |-> "Linux x86_64", os |-> "ubuntu-latest",
       artifact_pattern |-> <<"*", ".AppImage">>,
       artifact_name |-> <<"claudia", "linux", "x86_64">>],
      [name |-> "Windows x86_64", os |-> "windows-latest",
       artifact_pattern |-> <<"*", ".msi">>,
       artifact_name |-> <<"claudia", "windows", "x86_64">>],
      [name |-> "macOS Universal", os |-> "macos-latest",
       artifact_pattern |-> <<"*", ".dmg">>,
       artifact_name |-> <<"claudia", "macos", "universal">>] }

PlatformNames == { p.name : p \in Platforms }

\* The value of an output that no step has set; the id of the created release.
NoId == 0
ReleaseId == 1

\* No release: createRelease has not returned one.
NoRelease == [id |-> NoId, draft |-> FALSE, deleted |-> FALSE, assets |-> <<>>]

\* The run before its first job, and no latest.json.
Triggered ==
    /\ createRelease = "pending"
    /\ buildAndUpload = [n \in PlatformNames |-> "pending"]
    /\ release = NoRelease
    /\ finalizeRelease = [step |-> "needs", failed |-> FALSE]
    /\ latest = [written |-> FALSE, platforms |-> {}]

----------------------------------------------------------------------------
(* Pure helpers *)

RECURSIVE TrimStart(_)
TrimStart(s) ==
    IF s # <<>> /\ Head(s) \in Whitespace THEN TrimStart(Tail(s)) ELSE s

RECURSIVE TrimEnd(_)
TrimEnd(s) ==
    IF s # <<>> /\ s[Len(s)] \in Whitespace
    THEN TrimEnd(SubSeq(s, 1, Len(s) - 1))
    ELSE s

\* String.prototype.trim
Trim(s) == TrimEnd(TrimStart(s))

\* Array.prototype.findIndex on i.path === p, 1-based; 0 when there is none
FindIndex(list, p) ==
    IF \E i \in 1..Len(list) : list[i].path = p
    THEN CHOOSE i \in 1..Len(list) :
            /\ list[i].path = p
            /\ \A j \in 1..(i - 1) : list[j].path # p
    ELSE 0

\* installations.find(i => i.path === p), Null when undefined
Find(list, p) == IF FindIndex(list, p) = 0 THEN Null ELSE list[FindIndex(list, p)]

\* Mutant of FilterOut: nothing is filtered out.
FilterOutNothing(prev, p) == prev

\* prev.filter(inst => inst.path !== p)
FilterOut(prev, p) == SelectSeq(prev, LAMBDA inst : inst.path # p)

\* { path, version: undefined, source: "manual" }
ManualInstallation(p) == [path |-> p, version |-> "undefined", source |-> "manual"]

\* Mutant of ErrorMessage: a thrown non-Error leaves no message.
ErrorMessageNoFallback(thrown, fallback) ==
    IF thrown.isError THEN thrown.message ELSE NoError

\* err instanceof Error ? err.message : fallback
ErrorMessage(thrown, fallback) ==
    IF thrown.isError THEN thrown.message ELSE fallback

\* The effect on [selectedPath, installations]: the selection it leaves.
SyncSelection(sp, list, sel) ==
    IF sp # NoPath /\ Len(list) > 0 /\ Find(list, sp) # Null
    THEN Find(list, sp)
    ELSE sel

\* typeof open === 'function': open is a static import of the dialog plugin.
OpenIsFunction == TRUE

----------------------------------------------------------------------------
Mount ==
    /\ installations = <<>>
    /\ loading = TRUE
    /\ error = NoError
    /\ selectedInstallation = Null
    /\ manualPath = <<>>
    /\ isValidatingManualPath = FALSE
    /\ selectedPath \in PropPaths
    /\ loads = <<selectedPath>>
    /\ validations = EmptyBag
    /\ dialogOpen = FALSE
    /\ onSelectArg = Null
    /\ binaryPathSet = NoPath
    /\ notified = Null
    /\ lastOp = "mount"

\* The component on a backend that is left abstract: its discovery resolves
\* with any of DiscoveryResults.
Init == Mount /\ enumerated = <<>> /\ Triggered

----------------------------------------------------------------------------
(* loadInstallations *)

\* Mutant of LoadedInstallations: a manual entry is synthesized for every
\* persisted path, found or not.
LoadedInstallationsAlwaysManual(cp, found) ==
    IF cp # NoPath THEN <<ManualInstallation(cp)>> \o found ELSE found

\* Mutant of LoadedInstallations: the synthesized entry is appended.
LoadedInstallationsAppended(cp, found) ==
    IF cp # NoPath /\ Find(found, cp) = Null
    THEN found \o <<ManualInstallation(cp)>>
    ELSE found

\* Mutant of LoadedInstallations: the persisted path is not tested for
\* truthiness before the search.
LoadedInstallationsUnguarded(cp, found) ==
    IF Find(found, cp) = Null
    THEN <<ManualInstallation(cp)>> \o found
    ELSE found

\* The list after the continuation of loadInstallations (lines 83-100).
LoadedInstallations(cp, found) ==
    IF cp # NoPath /\ Find(found, cp) = Null
    THEN <<ManualInstallation(cp)>> \o found
    ELSE found

\* The selection the continuation of loadInstallations sets (lines 85-105).
LoadedSelection(cp, found, sel) ==
    IF cp # NoPath
    THEN IF Find(found, cp) # Null THEN Find(found, cp) ELSE ManualInstallation(cp)
    ELSE IF Len(found) > 0 THEN found[1] ELSE sel

\* Mutant of LoadNotifies: the auto-pick is silent.
LoadNotifiesNever(cp, found) == FALSE

\* Whether the continuation calls onSelect(foundInstallations[0]).
LoadNotifies(cp, found) == cp = NoPath /\ Len(found) > 0

\* The mount effect runs loadInstallations up to its await; the call captures
\* the selectedPath of the render that created it.
loadInstallations ==
    /\ Len(loads) < MaxLoads
    /\ loading' = TRUE
    /\ error' = NoError
    /\ loads' = Append(loads, selectedPath)
    /\ onSelectArg' = Null
    /\ binaryPathSet' = NoPath
    /\ lastOp' = "loadInstallations"
    /\ UNCHANGED <<enumerated, workflows>>
    /\ UNCHANGED <<installations, selectedInstallation, manualPath,
                   isValidatingManualPath, selectedPath, validations,
                   dialogOpen>>

\* The calls still awaiting the backend once the k-th of them has settled.
Settled(calls, k) == SubSeq(calls, 1, k - 1) \o SubSeq(calls, k + 1, Len(calls))

\* Mutant of loadInstallationsResolved: the result is added to the list
\* already held.
loadInstallationsResolvedMerging(k, found) ==
    /\ k \in 1..Len(loads)
    /\ loads' = Settled(loads, k)
    /\ installations' = installations \o LoadedInstallations(loads[k], found)
    /\ onSelectArg' = IF LoadNotifies(loads[k], found) THEN found[1] ELSE Null
    /\ binaryPathSet' = NoPath
    /\ selectedInstallation' =
          SyncSelection(selectedPath, installations',
                        LoadedSelection(loads[k], found, selectedInstallation))
    /\ loading' = FALSE
    /\ lastOp' = "loadInstallationsResolved"
    /\ UNCHANGED <<enumerated, workflows>>
    /\ UNCHANGED <<error, manualPath, isValidatingManualPath, selectedPath,
                   validations, dialogOpen>>

\* api.listClaudeInstallations() resolved with found, for the k-th call in
\* flight; then the effect on [selectedPath, installations] runs.
loadInstallationsResolved(k, found) ==
    /\ k \in 1..Len(loads)
    /\ loads' = Settled(loads, k)
    /\ installations' = LoadedInstallations(loads[k], found)
    /\ onSelectArg' = IF LoadNotifies(loads[k], found) THEN found[1] ELSE Null
    /\ binaryPathSet' = NoPath
    /\ selectedInstallation' =
          SyncSelection(selectedPath, installations',
                        LoadedSelection(loads[k], found, selectedInstallation))
    /\ loading' = FALSE
    /\ lastOp' = "loadInstallationsResolved"
    /\ UNCHANGED <<enumerated, workflows>>
    /\ UNCHANGED <<error, manualPath, isValidatingManualPath, selectedPath,
                   validations, dialogOpen>>

\* Mutant of loadInstallationsRejected: no finally block, loading stays as
\* it is.
loadInstallationsRejectedNoFinally(k, thrown) ==
    /\ k \in 1..Len(loads)
    /\ loads' = Settled(loads, k)
    /\ error' = ErrorMessage(thrown, "Failed to load Claude installations")
    /\ onSelectArg' = Null
    /\ binaryPathSet' = NoPath
    /\ lastOp' = "loadInstallationsRejected"
    /\ UNCHANGED <<enumerated, workflows>>
    /\ UNCHANGED <<installations, loading, selectedInstallation, manualPath,
                   isValidatingManualPath, selectedPath, validations,
                   dialogOpen>>

\* api.listClaudeInstallations() rejected.
loadInstallationsRejected(k, thrown) ==
    /\ k \in 1..Len(loads)
    /\ loads' = Settled(loads, k)
    /\ error' = ErrorMessage(thrown, "Failed to load Claude installations")
    /\ loading' = FALSE
    /\ onSelectArg' = Null
    /\ binaryPathSet' = NoPath
    /\ lastOp' = "loadInstallationsRejected"
    /\ UNCHANGED <<enumerated, workflows>>
    /\ UNCHANGED <<installations, selectedInstallation, manualPath,
                   isValidatingManualPath, selectedPath, validations,
                   dialogOpen>>

----------------------------------------------------------------------------
(* handleSelect *)

\* Mutant of handleSelect: the effect on [selectedPath, installations] runs
\* after the click.
handleSelectThenEffect(i) ==
    /\ ~loading
    /\ i \in 1..Len(installations)
    /\ onSelectArg' = installations[i]
    /\ binaryPathSet' = NoPath
    /\ selectedInstallation' =
          SyncSelection(selectedPath, installations, installations[i])
    /\ lastOp' = "handleSelect"
    /\ UNCHANGED <<enumerated, workflows>>
    /\ UNCHANGED <<installations, loading, error, manualPath,
                   isValidatingManualPath, selectedPath, loads, validations,
                   dialogOpen>>

\* A click on the card of installations[i]; the cards are rendered only
\* when loading is false.  The effect does not run: its dependencies are
\* unchanged.
handleSelect(i) ==
    /\ ~loading
    /\ i \in 1..Len(installations)
    /\ onSelectArg' = installations[i]
    /\ binaryPathSet' = NoPath
    /\ selectedInstallation' = installations[i]
    /\ lastOp' = "handleSelect"
    /\ UNCHANGED <<enumerated, workflows>>
    /\ UNCHANGED <<installations, loading, error, manualPath,
                   isValidatingManualPath, selectedPath, loads, validations,
                   dialogOpen>>

----------------------------------------------------------------------------
(* addManualInstallation *)

\* Mutant of IsBlank: only the empty string is refused.
IsBlankOnlyEmpty(path) == path = <<>>

\* if (!path.trim()) return
IsBlank(path) == Trim(path) = <<>>

\* Mutant of AddedInstallations: the path is stored and compared untrimmed.
AddedInstallationsUntrimmed(prev, path) ==
    <<ManualInstallation(path)>> \o FilterOut(prev, path)

\* Mutant of AddedInstallations: the manual entry is put at the end.
AddedInstallationsAtEnd(prev, path) ==
    FilterOut(prev, Trim(path)) \o <<ManualInstallation(Trim(path))>>

\* The list after a validated submission of path (lines 136-139).
AddedInstallations(prev, path) ==
    <<ManualInstallation(Trim(path))>> \o FilterOut(prev, Trim(path))

\* addManualInstallation(path) up to its await, as a change of
\* <<isValidatingManualPath, validations>>.
addManualInstallationStart(path) ==
    IF IsBlank(path)
    THEN UNCHANGED <<isValidatingManualPath, validations>>
    ELSE /\ isValidatingManualPath' = TRUE
         /\ validations' = validations (+) SetToBag({path})

\* onChange of the manual path input.
onChangeManualPath(text) ==
    /\ ~loading
    /\ text # manualPath
    /\ manualPath' = text
    /\ onSelectArg' = Null
    /\ binaryPathSet' = NoPath
    /\ lastOp' = "onChangeManualPath"
    /\ UNCHANGED <<enumerated, workflows>>
    /\ UNCHANGED <<installations, loading, error, selectedInstallation,
                   isValidatingManualPath, selectedPath, loads, validations,
                   dialogOpen>>

\* The "Use Path" button (disabled while blank or validating) or the Enter
\* key (ignored while blank): both call addManualInstallation(manualPath).
handleManualPathSubmit(via) ==
    /\ ~loading
    /\ ~IsBlank(manualPath)
    /\ via = "button" => ~isValidatingManualPath
    /\ addManualInstallationStart(manualPath)
    /\ onSelectArg' = Null
    /\ binaryPathSet' = NoPath
    /\ lastOp' = "handleManualPathSubmit"
    /\ UNCHANGED <<enumerated, workflows>>
    /\ UNCHANGED <<installations, loading, error, selectedInstallation,
                   manualPath, selectedPath, loads, dialogOpen>>

\* What a resolved api.setClaudeBinaryPath(p) has stored as the Claude binary
\* path: the validation is done "by trying to set it" (line 125).
SetClaudeBinaryPath(p) == p

\* api.setClaudeBinaryPath(path.trim()) resolved; then the effect on
\* [selectedPath, installations] runs.
addManualInstallationResolved(path) ==
    /\ BagIn(path, validations)
    /\ Trim(path) \in Executable
    /\ validations' = validations (-) SetToBag({path})
    /\ installations' = AddedInstallations(installations, path)
    /\ onSelectArg' = ManualInstallation(Trim(path))
    /\ binaryPathSet' = SetClaudeBinaryPath(Trim(path))
    /\ selectedInstallation' =
          SyncSelection(selectedPath, installations', ManualInstallation(Trim(path)))
    /\ manualPath' = <<>>
    /\ isValidatingManualPath' = FALSE
    /\ lastOp' = "addManualInstallationResolved"
    /\ UNCHANGED <<enumerated, workflows>>
    /\ UNCHANGED <<loading, error, selectedPath, loads, dialogOpen>>

\* api.setClaudeBinaryPath(path.trim()) rejected.
addManualInstallationRejected(path, thrown) ==
    /\ BagIn(path, validations)
    /\ Trim(path) \notin Executable
    /\ validations' = validations (-) SetToBag({path})
    /\ error' = ErrorMessage(thrown, "Invalid Claude binary path")
    /\ isValidatingManualPath' = FALSE
    /\ onSelectArg' = Null
    /\ binaryPathSet' = NoPath
    /\ lastOp' = "addManualInstallationRejected"
    /\ UNCHANGED <<enumerated, workflows>>
    /\ UNCHANGED <<installations, loading, selectedInstallation, manualPath,
                   selectedPath, loads, dialogOpen>>

----------------------------------------------------------------------------
(* handleBrowseFile *)

\* A click on "Browse for Claude Binary...", up to the await of open().
handleBrowseFile ==
    /\ ~loading
    /\ ~dialogOpen
    /\ IF OpenIsFunction
       THEN /\ dialogOpen' = TRUE
            /\ error' = error
       ELSE /\ dialogOpen' = FALSE
            /\ error' = "File browser is only available in the desktop app"
    /\ onSelectArg' = Null
    /\ binaryPathSet' = NoPath
    /\ lastOp' = "handleBrowseFile"
    /\ UNCHANGED <<enumerated, workflows>>
    /\ UNCHANGED <<installations, loading, selectedInstallation, manualPath,
                   isValidatingManualPath, selectedPath, loads, validations>>

\* Mutant of openResolved: the picked path is put into the manual path input
\* and not submitted.
openResolvedIntoInput(selected) ==
    /\ dialogOpen
    /\ dialogOpen' = FALSE
    /\ manualPath' = selected
    /\ onSelectArg' = Null
    /\ binaryPathSet' = NoPath
    /\ lastOp' = "openResolved"
    /\ UNCHANGED <<enumerated, workflows>>
    /\ UNCHANGED <<installations, loading, error, selectedInstallation,
                   isValidatingManualPath, selectedPath, loads, validations>>

\* open() resolved with selected (NoPath: cancelled).
openResolved(selected) ==
    /\ dialogOpen
    /\ dialogOpen' = FALSE
    /\ IF selected # NoPath
       THEN addManualInstallationStart(selected)
       ELSE UNCHANGED <<isValidatingManualPath, validations>>
    /\ onSelectArg' = Null
    /\ binaryPathSet' = NoPath
    /\ lastOp' = "openResolved"
    /\ UNCHANGED <<enumerated, workflows>>
    /\ UNCHANGED <<installations, loading, error, selectedInstallation,
                   manualPath, selectedPath, loads>>

\* open() rejected.
openRejected ==
    /\ dialogOpen
    /\ dialogOpen' = FALSE
    /\ error' = "Failed to open file browser. Please use manual path input instead."
    /\ onSelectArg' = Null
    /\ binaryPathSet' = NoPath
    /\ lastOp' = "openRejected"
    /\ UNCHANGED <<enumerated, workflows>>
    /\ UNCHANGED <<installations, loading, selectedInstallation, manualPath,
                   isValidatingManualPath, selectedPath, loads, validations>>

----------------------------------------------------------------------------
(* The Dismiss button, the Save button and the caller's prop *)

dismissError ==
    /\ ~loading
    /\ error # NoError
    /\ error' = NoError
    /\ onSelectArg' = Null
    /\ binaryPathSet' = NoPath
    /\ lastOp' = "dismissError"
    /\ UNCHANGED <<enumerated, workflows>>
    /\ UNCHANGED <<installations, loading, selectedInstallation, manualPath,
                   isValidatingManualPath, selectedPath, loads, validations,
                   dialogOpen>>

\* The path the caller's save stores: that of the selected installation.
SavedPath(sel) == sel.path

\* A click on "Save Selection" (rendered with showSaveButton and onSave when
\* loading is false, disabled without a selection or while saving): onSave().
onSave ==
    /\ ~loading
    /\ selectedInstallation # Null
    /\ binaryPathSet' = SavedPath(selectedInstallation)
    /\ onSelectArg' = Null
    /\ lastOp' = "onSave"
    /\ UNCHANGED <<enumerated, workflows>>
    /\ UNCHANGED <<installations, loading, error, selectedInstallation,
                   manualPath, isValidatingManualPath, selectedPath, loads,
                   validations, dialogOpen>>

\* The caller re-renders the component with another selectedPath; the effect
\* on [selectedPath, installations] runs.
selectedPathChanged(p) ==
    /\ p # selectedPath
    /\ selectedPath' = p
    /\ selectedInstallation' = SyncSelection(p, installations, selectedInstallation)
    /\ onSelectArg' = Null
    /\ binaryPathSet' = NoPath
    /\ lastOp' = "selectedPathChanged"
    /\ UNCHANGED <<enumerated, workflows>>
    /\ UNCHANGED <<installations, loading, error, manualPath,
                   isValidatingManualPath, loads, validations, dialogOpen>>

----------------------------------------------------------------------------
\* What the caller holds after the step: the installation it last received
\* through onSelect, when it keeps one.
Caller(keeps) ==
    notified' = IF keeps /\ onSelectArg' # Null THEN onSelectArg' ELSE notified

\* A step of the component with at most cap validations awaiting the backend.
Handlers(cap, keeps) ==
    \/ loadInstallations /\ Caller(keeps)
    \/ \E k \in 1..Len(loads), found \in DiscoveryResults :
          loadInstallationsResolved(k, found) /\ Caller(keeps)
    \/ \E k \in 1..Len(loads), thrown \in Thrown :
          loadInstallationsRejected(k, thrown) /\ Caller(keeps)
    \/ \E i \in 1..Len(installations) : handleSelect(i) /\ Caller(keeps)
    \/ \E text \in TypedInputs : onChangeManualPath(text) /\ Caller(keeps)
    \/ \E via \in {"button", "enter"} :
          /\ handleManualPathSubmit(via)
          /\ BagCardinality(validations') <= cap
          /\ Caller(keeps)
    \/ \E path \in BagToSet(validations) :
          addManualInstallationResolved(path) /\ Caller(keeps)
    \/ \E path \in BagToSet(validations), thrown \in Thrown :
          addManualInstallationRejected(path, thrown) /\ Caller(keeps)
    \/ handleBrowseFile /\ Caller(keeps)
    \/ \E selected \in DialogResults :
          /\ openResolved(selected)
          /\ BagCardinality(validations') <= cap
          /\ Caller(keeps)
    \/ openRejected /\ Caller(keeps)
    \/ dismissError /\ Caller(keeps)
    \/ onSave /\ Caller(keeps)
    \/ \E p \in PropPaths : selectedPathChanged(p) /\ Caller(keeps)

\* The caller is left abstract: what it received through onSelect is not kept.
Next == Handlers(MaxValidations, FALSE)

Spec == Init /\ [][Next]_vars

\* The component with overlapping validations: a submission by the Enter key
\* or through the file browser while another validation awaits the backend.
NextOverlap == Handlers(MaxOverlap, FALSE)

OverlapSpec == Init /\ [][NextOverlap]_vars

\* The component under a caller that keeps the installation it last received
\* through onSelect.
NextCaller == Handlers(MaxValidations, TRUE)

CallerSpec == Init /\ [][NextCaller]_vars

\* A call of api.listClaudeInstallations() in flight settles: its promise
\* resolves or rejects and the continuation of loadInstallations runs.
Settle ==
    \E k \in 1..Len(loads) :
        \/ \E found \in DiscoveryResults : loadInstallationsResolved(k, found)
        \/ \E thrown \in Thrown : loadInstallationsRejected(k, thrown)

\* Discovery and the handlers that await nothing.  The steps left out (the
\* submission of a manual path, the file browser and their continuations)
\* leave loading and loads unchanged.
NextDiscovery ==
    \/ loadInstallations /\ Caller(FALSE)
    \/ Settle /\ Caller(FALSE)
    \/ \E i \in 1..Len(installations) : handleSelect(i) /\ Caller(FALSE)
    \/ \E text \in TypedInputs : onChangeManualPath(text) /\ Caller(FALSE)
    \/ dismissError /\ Caller(FALSE)
    \/ onSave /\ Caller(FALSE)
    \/ \E p \in PropPaths : selectedPathChanged(p) /\ Caller(FALSE)

\* The behaviours of discovery in which no call stays in flight for ever.
FairSpec ==
    Init /\ [][NextDiscovery]_vars /\ WF_vars(Settle /\ Caller(FALSE))

----------------------------------------------------------------------------
(* The discovery pass behind api.listClaudeInstallations(): the candidates  *)
(* of the enumerators are deduplicated by canonical path and ranked by      *)
(* source.                                                                  *)

\* The canonical (symlink-resolved) path on the host: Link is a symbolic
\* link to UsrBin, every other path is its own canonical path.
Canonical(p) == IF p = Link THEN UsrBin ELSE p

\* The source tags, highest priority first.
SourcePriority ==
    << "which", "homebrew", "system", "nvm", "local-bin", "claude-local",
       "npm-global", "yarn", "bun" >>

\* The place of a source tag in the ranking order.
Rank(source) ==
    CHOOSE r \in 1..Len(SourcePriority) : SourcePriority[r] = source

\* Validated candidates an enumerator may return.
Candidates ==
    { [path |-> UsrBin, source |-> "which"],
      [path |-> Link, source |-> "homebrew"],
      [path |-> Link, source |-> "npm-global"],
      [path |-> Brew, source |-> "homebrew"],
      [path |-> Npm, source |-> "npm-global"] }

\* What the enumerators of one pass may return, in discovery order.
CandidateLists ==
    UNION { [1..n -> Candidates] : n \in 0..MaxCandidates }

\* Whether candidate a is preferred to candidate b of the same canonical
\* path: a is the earlier one in the list ordered by source priority and
\* discovery order.
Precedes(c, a, b) ==
    \/ Rank(c[a].source) < Rank(c[b].source)
    \/ Rank(c[a].source) = Rank(c[b].source) /\ a < b

\* Mutant of Survives: of two candidates of the same canonical path the one
\* discovered first is kept.
SurvivesFirstDiscovered(c, i) ==
    \A j \in 1..Len(c) :
        (j # i /\ Canonical(c[j].path) = Canonical(c[i].path)) => i < j

\* Whether candidate i is kept: no other candidate of the same canonical
\* path is preferred to it.
Survives(c, i) ==
    \A j \in 1..Len(c) :
        (j # i /\ Canonical(c[j].path) = Canonical(c[i].path)) => Precedes(c, i, j)

\* The place of surviving candidate i in the result.
Place(c, i) ==
    1 + Cardinality({ j \in 1..Len(c) : Survives(c, j) /\ Precedes(c, j, i) })

\* The result of the pass: the surviving candidates, ordered by source
\* priority and then by discovery order.
Discover(c) ==
    LET kept == { i \in 1..Len(c) : Survives(c, i) }
    IN  [ p \in 1..Cardinality(kept) |->
            LET i == CHOOSE i \in kept : Place(c, i) = p
            IN  [path |-> c[i].path, version |-> "1.2.0", source |-> c[i].source] ]

\* The component mounted on a host whose enumerators return enumerated.
InitDiscover == Mount /\ enumerated \in CandidateLists /\ Triggered

NextDiscover ==
    \/ loadInstallations /\ Caller(FALSE)
    \/ \E k \in 1..Len(loads) :
          loadInstallationsResolved(k, Discover(enumerated)) /\ Caller(FALSE)

DiscoverSpec == InitDiscover /\ [][NextDiscover]_vars

----------------------------------------------------------------------------
(* The release workflow (release.yml) *)

\* create-release: createRelease({draft: true, ...}) returns the release and
\* the job sets its outputs, or the job fails and build-and-upload, which
\* needs it, is skipped.
createReleaseJob(ok) ==
    /\ createRelease = "pending"
    /\ IF ok
       THEN /\ createRelease' = "success"
            /\ release' = [id |-> ReleaseId, draft |-> TRUE, deleted |-> FALSE,
                           assets |-> <<>>]
            /\ buildAndUpload' = buildAndUpload
       ELSE /\ createRelease' = "failure"
            /\ release' = release
            /\ buildAndUpload' = [n \in PlatformNames |-> "skipped"]
    /\ UNCHANGED <<finalizeRelease, latest, component>>

\* needs.create-release.outputs.release_id: empty unless the job set it.
ReleaseIdOutput == IF createRelease = "success" THEN release.id ELSE NoId

\* The file that "Find build artifacts" finds for the platform's pattern.
ArtifactFile(platform) == <<"Claudia_0.1.0">> \o Tail(platform.artifact_pattern)

\* path.extname
Extname(name) == <<name[Len(name)]>>

\* const finalName = `${baseName}${ext}`
FinalName(platform) ==
    platform.artifact_name \o Extname(ArtifactFile(platform))

\* The asset that uploadReleaseAsset adds to the release.
Asset(name) == [name |-> name, browser_download_url |-> <<"download">> \o name]

\* The build-and-upload job of one platform ends: with its asset uploaded to
\* the release, with a failed step, or cancelled.
buildAndUploadJob(platform, result) ==
    /\ createRelease = "success"
    /\ buildAndUpload[platform.name] = "pending"
    /\ buildAndUpload' = [buildAndUpload EXCEPT ![platform.name] = result]
    /\ release' = IF result = "success"
                  THEN [release EXCEPT
                          !.assets = Append(@, Asset(FinalName(platform)))]
                  ELSE release
    /\ UNCHANGED <<createRelease, finalizeRelease, latest, component>>

\* needs.build-and-upload.result: the result of the matrix as a whole.
NeedsResult(results) ==
    IF \A n \in PlatformNames : results[n] = "skipped" THEN "skipped"
    ELSE IF \E n \in PlatformNames : results[n] = "failure" THEN "failure"
    ELSE IF \E n \in PlatformNames : results[n] = "cancelled" THEN "cancelled"
    ELSE "success"

\* Mutant of BuildsFailed: cancelled builds pass the check.
BuildsFailedOnlyOnFailure(result) == result = "failure"

\* Whether "Check build results" exits 1.
BuildsFailed(result) == result \in {"failure", "cancelled"}

\* finalize-release starts when the jobs it needs have ended (if: always())
\* and runs "Check build results".
CheckBuildResults ==
    /\ finalizeRelease.step = "needs"
    /\ createRelease # "pending"
    /\ \A n \in PlatformNames : buildAndUpload[n] # "pending"
    /\ finalizeRelease' =
          [step |-> "Publish Release",
           failed |-> BuildsFailed(NeedsResult(buildAndUpload))]
    /\ UNCHANGED <<createRelease, buildAndUpload, release, latest, component>>

\* Whether a script with "const releaseId = ${{ ...release_id }};" is a
\* script: with the empty output it reads "const releaseId = ;".
ScriptParses(releaseId) == releaseId # NoId

\* "Publish Release" (if: success()): updateRelease({draft: false}) resolves
\* or rejects.
PublishRelease(resolves) ==
    /\ finalizeRelease.step = "Publish Release"
    /\ IF finalizeRelease.failed
       THEN /\ finalizeRelease' = [finalizeRelease EXCEPT !.step = "Cleanup on failure"]
            /\ release' = release
       ELSE IF ScriptParses(ReleaseIdOutput) /\ resolves
       THEN /\ finalizeRelease' = [finalizeRelease EXCEPT !.step = "Cleanup on failure"]
            /\ release' = [release EXCEPT !.draft = FALSE]
       ELSE /\ finalizeRelease' = [step |-> "Cleanup on failure", failed |-> TRUE]
            /\ release' = release
    /\ UNCHANGED <<createRelease, buildAndUpload, latest, component>>

\* "Cleanup on failure" (if: failure()): deleteRelease resolves, or rejects
\* and the rejection is caught and logged.
CleanupOnFailure(resolves) ==
    /\ finalizeRelease.step = "Cleanup on failure"
    /\ finalizeRelease' = [finalizeRelease EXCEPT !.step = "done"]
    /\ release' = IF /\ finalizeRelease.failed
                     /\ ScriptParses(ReleaseIdOutput)
                     /\ resolves
                  THEN [release EXCEPT !.deleted = TRUE]
                  ELSE release
    /\ UNCHANGED <<createRelease, buildAndUpload, latest, component>>

----------------------------------------------------------------------------
(* The updater workflow (updater.yml) *)

\* String.prototype.includes
Includes(name, part) ==
    \E i \in 0..Len(name) :
        /\ i + Len(part) <= Len(name)
        /\ SubSeq(name, i + 1, i + Len(part)) = part

\* The platforms object: each updater platform and the part of an asset
\* name it is searched by.
SearchedNames ==
    { [platform |-> "darwin-x86_64", part |-> <<"macos", "intel">>],
      [platform |-> "darwin-aarch64", part |-> <<"macos", "apple", "silicon">>],
      [platform |-> "linux-x86_64", part |-> <<"linux", "x86_64">>],
      [platform |-> "windows-x86_64", part |-> <<"windows", "x86_64">>] }

\* updaterJson.platforms: an entry for each searched name that
\* assets.find finds, with the url of the first asset found.
UpdaterPlatforms(assets) ==
    { [platform |-> s.platform,
       url |-> assets[CHOOSE i \in 1..Len(assets) :
                        /\ Includes(assets[i].name, s.part)
                        /\ \A j \in 1..(i - 1) : ~Includes(assets[j].name, s.part)
                     ].browser_download_url] :
        s \in { t \in SearchedNames :
                  \E i \in 1..Len(assets) : Includes(assets[i].name, t.part) } }

\* on: release: types: [published].  The job writes latest.json and uploads
\* it to the release.
updaterJob ==
    /\ release.id # NoId
    /\ ~release.draft
    /\ ~release.deleted
    /\ ~latest.written
    /\ latest' = [written |-> TRUE, platforms |-> UpdaterPlatforms(release.assets)]
    /\ release' = [release EXCEPT !.assets = Append(@, Asset(<<"latest", ".json">>))]
    /\ UNCHANGED <<createRelease, buildAndUpload, finalizeRelease, component>>

NextRelease ==
    \/ \E ok \in BOOLEAN : createReleaseJob(ok)
    \/ \E platform \in Platforms, result \in {"success", "failure", "cancelled"} :
          buildAndUploadJob(platform, result)
    \/ CheckBuildResults
    \/ \E resolves \in BOOLEAN : PublishRelease(resolves)
    \/ \E resolves \in BOOLEAN : CleanupOnFailure(resolves)
    \/ updaterJob

ReleaseSpec == Init /\ [][NextRelease]_vars

----------------------------------------------------------------------------
(* What the render shows *)

\* The "No Claude Code installations found automatically." card.
NoInstallationsMessage == Len(installations) = 0 /\ ~loading

----------------------------------------------------------------------------
(* Vocabulary of the properties *)

PathsOf(list) == { list[i].path : i \in 1..Len(list) }

\* The raw path argument of the validation that the step completes.
Completes(path) ==
    /\ BagIn(path, validations)
    /\ validations' = validations (-) SetToBag({path})

----------------------------------------------------------------------------
(* C1 *)

\* C1: a manual path submission whose validation fails changes neither the
\* installations list nor the selected installation, in the step that starts
\* the validation and in the step that receives the rejection; neither step
\* calls onSelect, and the rejection leaves a non-null error.
C1_FailureIsAllOrNothing ==
    [][ /\ lastOp' = "addManualInstallationRejected" =>
             /\ installations' = installations
             /\ selectedInstallation' = selectedInstallation
             /\ onSelectArg' = Null
             /\ error' # NoError
        /\ lastOp' \in {"handleManualPathSubmit", "openResolved"} =>
             /\ installations' = installations
             /\ selectedInstallation' = selectedInstallation
             /\ onSelectArg' = Null ]_vars

\* A rejected validation has just been received while a selection and a
\* list existed.
C1_Witness ==
    /\ lastOp = "addManualInstallationRejected"
    /\ error = "Invalid Claude binary path"
    /\ selectedInstallation = WhichInstallation
    /\ installations = <<WhichInstallation, BrewInstallation>>

----------------------------------------------------------------------------
(* C2 *)

\* C2: in every reachable state no two entries of the installations list
\* have the same path (every discovery result has unique paths).
C2_UniquePaths ==
    \A i, j \in 1..Len(installations) :
        i # j => installations[i].path # installations[j].path

\* A validated manual path has replaced the discovered entry of the same path.
C2_Witness ==
    /\ lastOp = "addManualInstallationResolved"
    /\ installations = << [path |-> UsrBin, version |-> "undefined", source |-> "manual"],
                          BrewInstallation >>

----------------------------------------------------------------------------
(* C3 *)

\* C3: when the validation of a manual path succeeds, the list starts with a
\* manual-sourced installation for the trimmed path p, no other entry has
\* path p, that entry is the selected installation, and it is passed to
\* onSelect.
C3_ManualSuccess ==
    [][ \A path \in BagToSet(validations) :
          (lastOp' = "addManualInstallationResolved" /\ Completes(path)) =>
             LET p == Trim(path)
                 entry == [path |-> p, version |-> "undefined", source |-> "manual"]
             IN  /\ Len(installations') > 0
                 /\ installations'[1] = entry
                 /\ \A i \in 2..Len(installations') : installations'[i].path # p
                 /\ selectedInstallation' = entry
                 /\ onSelectArg' = entry ]_vars

----------------------------------------------------------------------------
(* C4 *)

\* C4: after a manual path has been validated and added, no other entry of
\* the list has the same canonical (symlink-resolved) path as the new entry.
C4_CanonicalIdentity ==
    lastOp = "addManualInstallationResolved" =>
        \A i \in 2..Len(installations) :
            Canonical(installations[i].path) # Canonical(installations[1].path)

----------------------------------------------------------------------------
(* C5 *)

\* C5: when a discovery completes whose persisted selected path cp (the
\* selectedPath of the call, still the selectedPath at completion) is the
\* path of a discovered installation, the list is the discovery result, it
\* holds no manual entry, and the selected installation is the discovered
\* entry with path cp.
C5_PersistedPathFound ==
    [][ lastOp' = "loadInstallationsResolved" =>
        \A k \in 1..Len(loads), found \in DiscoveryResults :
         LET cp == loads[k] IN
          ( /\ cp # NoPath
            /\ selectedPath = cp
            /\ cp \in PathsOf(found)
            /\ loadInstallationsResolved(k, found) ) =>
             /\ installations' = found
             /\ \A i \in 1..Len(installations') : installations'[i].source # "manual"
             /\ \E i \in 1..Len(found) :
                   /\ found[i].path = cp
                   /\ selectedInstallation' = found[i] ]_vars

\* A discovery has completed and selected the discovered entry of the
\* persisted path.
C5_Witness ==
    /\ lastOp = "loadInstallationsResolved"
    /\ selectedPath = UsrBin
    /\ installations = <<WhichInstallation, BrewInstallation>>
    /\ selectedInstallation = WhichInstallation
    /\ onSelectArg = Null

----------------------------------------------------------------------------
(* C6 *)

\* C6: when a discovery completes whose persisted selected path cp (the
\* selectedPath of the call, still the selectedPath at completion) is the
\* path of no discovered installation, the list is a manual-sourced entry for
\* cp without version followed by the discovery result in its order, and
\* that manual entry is the selected installation.
C6_PersistedPathMissing ==
    [][ lastOp' = "loadInstallationsResolved" =>
        \A k \in 1..Len(loads), found \in DiscoveryResults :
         LET cp == loads[k] IN
          ( /\ cp # NoPath
            /\ selectedPath = cp
            /\ cp \notin PathsOf(found)
            /\ loadInstallationsResolved(k, found) ) =>
             LET entry == [path |-> cp, version |-> "undefined", source |-> "manual"]
             IN  /\ installations' = <<entry>> \o found
                 /\ selectedInstallation' = entry ]_vars

\* A discovery has completed without finding the persisted path among two
\* discovered installations.
C6_Witness ==
    /\ lastOp = "loadInstallationsResolved"
    /\ selectedPath = UsrBin
    /\ installations = << [path |-> UsrBin, version |-> "undefined", source |-> "manual"],
                          BrewInstallation, NpmInstallation >>
    /\ selectedInstallation = installations[1]

----------------------------------------------------------------------------
(* C7 *)

\* C7: when a discovery completes with no persisted selected path (none at
\* the call, none at completion) and a non-empty result, the first
\* installation of the result is the selected installation and is passed to
\* onSelect.
C7_AutoSelectFirst ==
    [][ lastOp' = "loadInstallationsResolved" =>
        \A k \in 1..Len(loads), found \in DiscoveryResults :
         LET cp == loads[k] IN
          ( /\ cp = NoPath
            /\ selectedPath = NoPath
            /\ Len(found) > 0
            /\ loadInstallationsResolved(k, found) ) =>
             /\ selectedInstallation' = found[1]
             /\ onSelectArg' = found[1] ]_vars

\* The discovery of [/usr/bin, homebrew] has completed with no persisted path.
C7_Witness ==
    /\ lastOp = "loadInstallationsResolved"
    /\ selectedPath = NoPath
    /\ installations = <<WhichInstallation, BrewInstallation>>
    /\ selectedInstallation = WhichInstallation
    /\ onSelectArg = WhichInstallation

----------------------------------------------------------------------------
(* C8 *)

\* C8 as claimed: when a discovery completes with no candidate, whatever the
\* persisted selected path of the call, the list is empty and the "no
\* installations found" message is shown.
C8_EmptyDiscoveryAnyPersistedPath ==
    [][ lastOp' = "loadInstallationsResolved" =>
        \A k \in 1..Len(loads) :
         LET cp == loads[k] IN
          loadInstallationsResolved(k, <<>>) =>
             /\ installations' = <<>>
             /\ NoInstallationsMessage' ]_vars

\* C8 as amended: when a discovery completes with no candidate and the call
\* had no persisted selected path, the list is empty and the "no
\* installations found" message is shown; when the call had a persisted
\* selected path cp, the list is exactly the synthesized manual entry for cp
\* and the message is not shown.
C8_EmptyDiscovery ==
    [][ lastOp' = "loadInstallationsResolved" =>
        \A k \in 1..Len(loads) :
         LET cp == loads[k] IN
          loadInstallationsResolved(k, <<>>) =>
             IF cp = NoPath
             THEN /\ installations' = <<>>
                  /\ NoInstallationsMessage'
             ELSE /\ installations' =
                        << [path |-> cp, version |-> "undefined", source |-> "manual"] >>
                  /\ ~NoInstallationsMessage' ]_vars

\* A discovery without persisted path has completed with no candidate.
C8_Witness ==
    /\ lastOp = "loadInstallationsResolved"
    /\ selectedPath = NoPath
    /\ loads = <<>>
    /\ installations = <<>>
    /\ selectedInstallation = Null
    /\ NoInstallationsMessage

----------------------------------------------------------------------------
(* C9 *)

----------------------------------------------------------------------------
(* C10 *)

\* C10: once an installation is selected, the selection moves to an
\* installation of another path only in a step of handleSelect or in the
\* step that receives a successful validation of a manual path.
C10_SelectionChangesOnlyByUser ==
    [][ ( /\ selectedInstallation # Null
          /\ selectedInstallation'.path # selectedInstallation.path ) =>
           lastOp' \in {"handleSelect", "addManualInstallationResolved"} ]_vars

----------------------------------------------------------------------------
(* C11 *)

\* C11: the stored Claude binary path is written only by the caller's save
\* (a click on "Save Selection"), never by a step of handleSelect or by the
\* validation of a manual path.
C11_StoredOnlyBySave ==
    [][ binaryPathSet' # NoPath => lastOp' = "onSave" ]_vars

----------------------------------------------------------------------------
(* C12 *)

\* C12: whenever the cards are shown, a click on the card of any installation
\* of the list is possible; it makes exactly that installation the selected
\* one and passes it to onSelect, starts no validation, and leaves the list,
\* the error and the manual path input unchanged.
C12_SelectSetsExactly ==
    /\ [](~loading => \A i \in 1..Len(installations) : ENABLED handleSelect(i))
    /\ [][ lastOp' = "handleSelect" =>
            \A i \in 1..Len(installations) :
             handleSelect(i) =>
                /\ selectedInstallation' = installations[i]
                /\ onSelectArg' = installations[i]
                /\ validations' = validations
                /\ isValidatingManualPath' = isValidatingManualPath
                /\ installations' = installations
                /\ error' = error
                /\ manualPath' = manualPath ]_vars

\* The homebrew card has been clicked while the selectedPath prop names
\* the /usr/bin installation, an error is shown and a path is typed.
C12_Witness ==
    /\ lastOp = "handleSelect"
    /\ selectedPath = UsrBin
    /\ installations = <<WhichInstallation, BrewInstallation>>
    /\ selectedInstallation = BrewInstallation
    /\ onSelectArg = BrewInstallation
    /\ error # NoError
    /\ manualPath # <<>>

----------------------------------------------------------------------------
(* C13 *)

\* The automatically discovered entries of a list, in their order.
AutoEntries(list) == SelectSeq(list, LAMBDA inst : inst.source # "manual")

\* C13: in every reachable state no automatically discovered entry of the
\* list precedes a manual-sourced entry, and the automatically discovered
\* entries are entries of one discovery result, in the order they have in it.
C13_ManualEntriesFirst ==
    /\ \A i, j \in 1..Len(installations) :
          (i < j /\ installations[j].source = "manual") =>
             installations[i].source = "manual"
    /\ \E found \in DiscoveryResults :
          AutoEntries(installations) =
             SelectSeq(found, LAMBDA inst :
                          \E i \in 1..Len(installations) : installations[i] = inst)

\* A manual path has been validated and added in front of two discovered
\* installations.
C13_Witness ==
    /\ lastOp = "addManualInstallationResolved"
    /\ installations = << [path |-> Link, version |-> "undefined", source |-> "manual"],
                          WhichInstallation, BrewInstallation >>

----------------------------------------------------------------------------
(* C14 *)

\* C14: when a discovery call completes that was issued before another call
\* still in flight (a stale call), its result is discarded: the list and the
\* selection stay as they are and onSelect is not called.
C14_StaleResultDiscarded ==
    [][ lastOp' = "loadInstallationsResolved" =>
        \A k \in 1..Len(loads), found \in DiscoveryResults :
          (k < Len(loads) /\ loadInstallationsResolved(k, found)) =>
             /\ installations' = installations
             /\ selectedInstallation' = selectedInstallation
             /\ onSelectArg' = Null ]_vars

----------------------------------------------------------------------------
(* C15 *)

\* C15: when the list holds a manual-sourced entry for a path p added by a
\* validated submission, and a discovery whose persisted selected path is p
\* completes with a result that contains p, the list then holds exactly one
\* entry for p.
C15_ManualRoundTrip ==
    [][ lastOp' = "loadInstallationsResolved" =>
        \A k \in 1..Len(loads), found \in DiscoveryResults :
         LET p == loads[k] IN
          ( /\ p # NoPath
            /\ \E i \in 1..Len(installations) :
                  installations[i] = [path |-> p, version |-> "undefined", source |-> "manual"]
            /\ p \in PathsOf(found)
            /\ loadInstallationsResolved(k, found) ) =>
             Cardinality({ i \in 1..Len(installations') : installations'[i].path = p }) = 1 ]_vars

\* A submission of /usr/bin has just been validated and its manual entry
\* leads the list, while a discovery whose persisted selected path is
\* /usr/bin has yet to complete.
C15_Witness ==
    /\ lastOp = "addManualInstallationResolved"
    /\ Len(installations) > 0
    /\ installations[1] = [path |-> UsrBin, version |-> "undefined", source |-> "manual"]
    /\ selectedInstallation = installations[1]
    /\ selectedPath = UsrBin
    /\ loads = <<UsrBin>>

----------------------------------------------------------------------------
(* C16 *)

\* C16: when every discovery call settles, a loading state always ends
\* (loading becomes false), whether the call returned a list or failed; and
\* the step that receives a failure leaves loading false, the failure shown
\* as the error and the manual path input open to typing, and a typed path
\* can then be submitted.
C16_DiscoveryEndsLoading ==
    /\ loading ~> ~loading
    /\ [](lastOp = "loadInstallationsRejected" =>
             /\ ~loading
             /\ error # NoError
             /\ ENABLED (\E text \in TypedInputs : onChangeManualPath(text)))
    /\ []((error # NoError /\ ~loading /\ ~IsBlank(manualPath)
              /\ ~isValidatingManualPath) =>
             ENABLED handleManualPathSubmit("button"))

\* The only discovery call has failed: the loading state has ended, the
\* failure is shown and the user has typed a manual path.
C16_Witness ==
    /\ lastOp = "onChangeManualPath"
    /\ loads = <<>>
    /\ ~loading
    /\ error = "Failed to load Claude installations"
    /\ installations = <<>>
    /\ ~IsBlank(manualPath)

----------------------------------------------------------------------------
(* C17 *)

\* The step submits the string s as a manual path: a blank s starts nothing,
\* any other s starts a validation of s; the list, the selection and the
\* error stay as they are and onSelect is not called.
SubmitsManualPath(s) ==
    /\ IF Trim(s) = <<>>
       THEN /\ validations' = validations
            /\ isValidatingManualPath' = isValidatingManualPath
       ELSE /\ validations' = validations (+) SetToBag({s})
            /\ isValidatingManualPath' = TRUE
    /\ installations' = installations
    /\ selectedInstallation' = selectedInstallation
    /\ error' = error
    /\ onSelectArg' = Null

\* C17: the step that receives a path from the file-picker dialog does what
\* the submission of the manual path input does with the same string: it
\* starts the same validation, whose continuation then decides the list, the
\* selection, the notification and the error from that string alone; and when
\* the dialog returns no path, the list, the selection and the error are
\* unchanged and no validation starts.
C17_PickedPathIsSubmitted ==
    [][ /\ lastOp' = "openResolved" =>
           \A selected \in DialogResults :
              openResolved(selected) =>
                 IF selected = NoPath
                 THEN /\ installations' = installations
                      /\ selectedInstallation' = selectedInstallation
                      /\ error' = error
                      /\ validations' = validations
                      /\ onSelectArg' = Null
                 ELSE SubmitsManualPath(selected)
        /\ lastOp' = "handleManualPathSubmit" => SubmitsManualPath(manualPath) ]_vars

\* The file-picker has returned the string that the user can also type, and
\* its validation is in flight while the manual path input is empty.
C17_Witness ==
    /\ lastOp = "openResolved"
    /\ BagIn(<<" ", "u", " ">>, validations)
    /\ isValidatingManualPath
    /\ manualPath = <<>>
    /\ installations = <<WhichInstallation, BrewInstallation>>

----------------------------------------------------------------------------
(* C18 *)

\* C18: when a discovery completes with the result found under the persisted
\* selected path cp, directly after a discovery that completed with the same
\* result under the same persisted path (the list held is the one that found
\* and cp produce, and onSelect was called as they require), the list stays
\* the same, in the same order, and the selected installation stays the same.
C18_ConsecutiveCompletionsAgree ==
    [][ (lastOp = "loadInstallationsResolved" /\ lastOp' = "loadInstallationsResolved") =>
        \A k \in 1..Len(loads), found \in DiscoveryResults :
         LET cp == loads[k] IN
          ( /\ selectedPath = cp
            /\ installations =
                  IF cp # NoPath /\ cp \notin PathsOf(found)
                  THEN << [path |-> cp, version |-> "undefined", source |-> "manual"] >> \o found
                  ELSE found
            /\ onSelectArg = IF cp = NoPath /\ Len(found) > 0 THEN found[1] ELSE Null
            /\ loadInstallationsResolved(k, found) ) =>
             /\ installations' = installations
             /\ selectedInstallation' = selectedInstallation ]_vars

\* A discovery without persisted path has completed with two installations
\* and selected the first, and a second discovery without persisted path has
\* yet to complete.
C18_Witness ==
    /\ lastOp = "loadInstallationsResolved"
    /\ selectedPath = NoPath
    /\ loads = <<NoPath>>
    /\ installations = <<WhichInstallation, BrewInstallation>>
    /\ selectedInstallation = WhichInstallation
    /\ onSelectArg = WhichInstallation

----------------------------------------------------------------------------
(* C19 *)

\* C19: when a discovery completes on a host where two enumerated candidates
\* of different sources have the same canonical path, exactly one
\* automatically discovered entry of the list has that canonical path, and
\* its source is the one of the two that comes first in the ranking order,
\* unless a further candidate of that canonical path has a source of still
\* higher priority, which it then carries.
C19_DedupBySourcePriority ==
    lastOp = "loadInstallationsResolved" =>
        \A i, j \in 1..Len(enumerated) :
            ( /\ Canonical(enumerated[i].path) = Canonical(enumerated[j].path)
              /\ Rank(enumerated[i].source) < Rank(enumerated[j].source) ) =>
               LET hits == { m \in 1..Len(installations) :
                               /\ installations[m].source # "manual"
                               /\ Canonical(installations[m].path) =
                                     Canonical(enumerated[i].path) }
                   best == { m \in 1..Len(enumerated) :
                               /\ Canonical(enumerated[m].path) = Canonical(enumerated[i].path)
                               /\ \A n \in 1..Len(enumerated) :
                                     Canonical(enumerated[n].path) = Canonical(enumerated[i].path)
                                        => Rank(enumerated[m].source) <= Rank(enumerated[n].source) }
               IN  /\ Cardinality(hits) = 1
                   /\ \A m \in hits :
                         /\ Rank(installations[m].source) <= Rank(enumerated[i].source)
                         /\ \E b \in best : installations[m].source = enumerated[b].source

\* A discovery has completed on a host where the npm-global enumerator
\* returned a symbolic link to /usr/bin before the PATH search returned
\* /usr/bin itself: the list holds the PATH entry alone, ahead of homebrew's.
C19_Witness ==
    /\ lastOp = "loadInstallationsResolved"
    /\ enumerated = << [path |-> Link, source |-> "npm-global"],
                       [path |-> Brew, source |-> "homebrew"],
                       [path |-> UsrBin, source |-> "which"] >>
    /\ installations = <<WhichInstallation, BrewInstallation>>

----------------------------------------------------------------------------
(* C20 *)

\* C20: in every reachable state, a selected installation (non-null) has the
\* path of an entry of the installations list.
C20_SelectedIsListed ==
    selectedInstallation # Null =>
        \E i \in 1..Len(installations) :
            installations[i].path = selectedInstallation.path

----------------------------------------------------------------------------
(* C21 *)

\* C21: in every reachable state isValidatingManualPath is true exactly when
\* at least one validation of a manual path is awaiting its result.
C21_ValidatingWhileInFlight ==
    isValidatingManualPath <=> validations # EmptyBag

----------------------------------------------------------------------------
(* C22 *)

\* C22: in every reachable state a selected installation (non-null) has the
\* path of the selectedPath prop or is the installation most recently passed
\* to onSelect.
C22_SelectionMatchesCaller ==
    selectedInstallation # Null =>
        \/ selectedInstallation.path = selectedPath
        \/ selectedInstallation = notified

----------------------------------------------------------------------------
(* C23 *)

\* C23: a call of addManualInstallation with an empty or whitespace-only path
\* (a picked path of that kind; the Enter key and the button do not call it
\* with one) issues no validation and leaves the list, the selected
\* installation, the error, the validating flag and the manual path input
\* unchanged; a validation that succeeds was given, and stores in the new
\* first entry, the submitted path without its surrounding whitespace.
C23_BlankIsNoOpAndPathIsTrimmed ==
    [][ /\ lastOp' = "openResolved" =>
            \A selected \in DialogResults :
                ( /\ \A i \in 1..Len(selected) : selected[i] \in {" "}
                  /\ openResolved(selected) )
                => UNCHANGED <<validations, installations, selectedInstallation,
                               error, isValidatingManualPath, manualPath>>
        /\ lastOp' = "handleManualPathSubmit" =>
            /\ \E i \in 1..Len(manualPath) : manualPath[i] # " "
            /\ validations' = validations (+) SetToBag({manualPath})
        /\ lastOp' = "addManualInstallationResolved" =>
            \A path \in BagToSet(validations) :
                addManualInstallationResolved(path) =>
                    LET stored == installations'[1].path
                        n == Len(stored)
                    IN  /\ installations'[1].source = "manual"
                        /\ binaryPathSet' = stored
                        /\ stored \in Executable
                        /\ n > 0 /\ stored[1] # " " /\ stored[n] # " "
                        /\ \E i \in 0..Len(path) :
                              /\ i + n <= Len(path)
                              /\ SubSeq(path, i + 1, i + n) = stored
                              /\ \A k \in (1..i) \cup ((i + n + 1)..Len(path)) :
                                    path[k] = " "
      ]_vars

\* C23 witness: the typed path " u " was validated and its trimmed form is
\* the stored path of the new first entry.
C23_Witness ==
    /\ lastOp = "addManualInstallationResolved"
    /\ selectedPath = NoPath
    /\ binaryPathSet = UsrBin
    /\ installations # <<>>
    /\ installations[1] = [path |-> UsrBin, version |-> "undefined", source |-> "manual"]
    /\ onSelectArg = installations[1]
    /\ loads = <<>>

----------------------------------------------------------------------------
(* C24 *)

\* C24: in every reachable state of a release run, a release whose draft
\* flag has been removed has a build-and-upload job that succeeded for every
\* matrix platform: none failed, was cancelled or was skipped.
C24_PublishedOnlyIfAllBuilt ==
    (release.id # NoId /\ ~release.draft) =>
        \A platform \in Platforms : buildAndUpload[platform.name] = "success"

\* C24 witness: finalize-release has run to its end and published the
\* release of three successful builds.
C24_Witness ==
    /\ finalizeRelease = [step |-> "done", failed |-> FALSE]
    /\ release.id # NoId
    /\ ~release.draft
    /\ ~release.deleted
    /\ Len(release.assets) = 3
    /\ \A platform \in Platforms : buildAndUpload[platform.name] = "success"

----------------------------------------------------------------------------
(* C25 *)

\* C25: when finalize-release has ended in a run whose create-release
\* succeeded, the release is exactly one of published (draft flag removed)
\* and deleted: it is not left as a draft and is not both.
C25_PublishedOrDeleted ==
    (createRelease = "success" /\ finalizeRelease.step = "done") =>
        (~release.draft) # release.deleted

----------------------------------------------------------------------------
(* C26 *)

\* C26: once the updater has written latest.json, every platform asset that
\* the release workflow uploaded to the release has an entry in its
\* platforms whose url is the download URL of that asset.
C26_EveryUploadedPlatformListed ==
    latest.written =>
        \A platform \in Platforms :
            \A i \in 1..Len(release.assets) :
                release.assets[i].name = FinalName(platform) =>
                    \E entry \in latest.platforms :
                        entry.url = release.assets[i].browser_download_url

====
